---- MODULE Spec2Model ----
(***************************************************************************)
(* Model of the multi001 humidity-temperature-tilt firmware                *)
(* (multi001-v1.cpp): setup(), connect_to_mqtt() and loop().               *)
(*                                                                         *)
(* Time is the millisecond clock behind millis().  It advances between two *)
(* executions of loop(), in the delay() calls of the code and while the    *)
(* configuration portal waits for its timeout; every other statement is    *)
(* taken to be instantaneous.                                              *)
(***************************************************************************)
EXTENDS Integers, Sequences, FiniteSets

VARIABLES
    pc,                       \* "boot", "portal", "failed", "hang", "loop", "connect"
    clock,                    \* milliseconds since boot (the value behind millis())
    now,                      \* loop(): long now
    mqttPublishSoftDeadline,  \* loop(): static long
    mqttPublishHardDeadline,  \* loop(): static long
    CURRENT,                  \* CURRENT_HUMIDITY, CURRENT_TEMPERATURE, CURRENT_SW0..3
    PREVIOUS,                 \* PREVIOUS_HUMIDITY, PREVIOUS_TEMPERATURE, PREVIOUS_SW0..3
    mqttConfig,               \* the four property names of MQTT_CONFIG
    eeprom,                   \* the stored configuration record, or NoConfig
    wifiSaved,                \* WiFiManager holds credentials of a network
    connected,                \* mqttClient.connected()
    jsonBuffer,               \* the StaticJsonDocument: a sequence of members
    mqttStatusMessage,        \* loop(): static char[128], what was serialized last
    input,                    \* what the sensors delivered on the last sample pass
    event,                    \* what the last step did
    lastPub,                  \* the last call of mqttClient.publish
    tick,                     \* executions of loop() since boot: "none", "first", "later"
    backoffs                  \* delay(5000) calls of the running connect_to_mqtt

vars == <<pc, clock, now, mqttPublishSoftDeadline, mqttPublishHardDeadline,
          CURRENT, PREVIOUS, mqttConfig, eeprom, wifiSaved, connected,
          jsonBuffer, mqttStatusMessage, input, event, lastPub, tick,
          backoffs>>

-----------------------------------------------------------------------------
(* Program constants *)

GPIO_SW0 == 14
GPIO_SW1 == 15
GPIO_SW2 == 16
GPIO_SW3 == 17
DEBUG_SERIAL_START_DELAY == 2000
WIFI_ACCESS_POINT_PORTAL_TIMEOUT == 180
MQTT_PUBLISH_SOFT_INTERVAL == 3000
MQTT_PUBLISH_HARD_INTERVAL == 30000
AM2322_STARTUP_DELAY == 2000
SENSOR_UNDEFINED_VALUE == 999
MQTT_RETRY_DELAY == 5000
STATUS_MESSAGE_SIZE == 128

(* Bounds of the model *)

\* Milliseconds after boot up to which a run is followed: with every
\* configuration and input, and with one configuration past the heartbeat.
MaxTime == 20000
MaxTimeHeartbeat == 37000
MaxBackoffs == 3

\* Width of long and unsigned long in bits.  The platform has 32; the model
\* keeps the two's complement arithmetic at a narrower width.
LongBits == 20

\* Milliseconds between the end of one execution of loop() and the next.
Steps == {1000, 3000}

\* Milliseconds before and after the clock passes the largest long between
\* which a run is followed.
OverflowLead == 6000
OverflowTail == 6000

-----------------------------------------------------------------------------
(* Integer arithmetic of the platform *)

\* millis() returns an unsigned long: the clock modulo 2^32.
Millis(t) == t % (2 ^ LongBits)

\* A value stored in a (signed, two's complement) long.
ToLong(x) ==
    LET m == x % (2 ^ LongBits)
    IN  IF m >= 2 ^ (LongBits - 1) THEN m - 2 ^ LongBits ELSE m

\* (int) round(v) for a sensor value given in tenths: half away from zero.
RoundTenths(v) ==
    IF v >= 0 THEN (v + 5) \div 10 ELSE -((5 - v) \div 10)

-----------------------------------------------------------------------------
(* Configuration *)

Channels == 0..3

EmptyConfig == [i \in Channels |-> ""]

\* No valid record in EEPROM (the test byte is not STORAGE_TEST_VALUE).
NoConfig == [valid |-> FALSE, config |-> EmptyConfig]

\* EEPROM after saveConfig(config)
Saved(config) == [valid |-> TRUE, config |-> config]

ConfigTilt == [i \in Channels |-> IF i = 1 THEN "tilt" ELSE IF i = 3 THEN "door" ELSE ""]

ConfigClash == [i \in Channels |-> IF i = 0 THEN "humidity" ELSE ""]

ConfigLong ==
    [i \in Channels |->
        CASE i = 0 -> "switch-channel-no-0"
          [] i = 1 -> "switch-channel-no-1"
          [] i = 2 -> "switch-channel-no-2"
          [] i = 3 -> "switch-channel-no-3"]

\* The configurations a user enters in the portal (each name fits char[20]).
Configs == {EmptyConfig, ConfigTilt, ConfigClash, ConfigLong}

\* strlen(mqttConfig.propertynameN) as a condition
Enabled(config, i) == Len(config[i]) > 0

-----------------------------------------------------------------------------
(* Sensors *)

Pins == {GPIO_SW0, GPIO_SW1, GPIO_SW2, GPIO_SW3}

\* The pin loop() passes to digitalRead for each switch channel.
PinRead(i) ==
    CASE i = 0 -> GPIO_SW0
      [] i = 1 -> GPIO_SW1
      [] i = 2 -> GPIO_SW1
      [] i = 3 -> GPIO_SW3

\* Levels of the four inputs at the time of a sample pass.
PinLevels ==
    { [p \in Pins |-> 0],
      [p \in Pins |-> IF p = GPIO_SW2 THEN 0 ELSE 1] }

\* What AM2322 delivers: a failed read, or humidity and temperature in tenths.
SensorReads ==
    { [ok |-> FALSE, humidity |-> 0, temperature |-> 0],
      [ok |-> TRUE, humidity |-> 450, temperature |-> 220],
      [ok |-> TRUE, humidity |-> 455, temperature |-> -45] }

NoInput == [levels |-> [p \in Pins |-> 0], sensor |-> [ok |-> FALSE, humidity |-> 0, temperature |-> 0]]

Undefined ==
    [humidity |-> SENSOR_UNDEFINED_VALUE, temperature |-> SENSOR_UNDEFINED_VALUE,
     sw |-> [i \in Channels |-> SENSOR_UNDEFINED_VALUE]]

\* ReadSensors without the strlen tests: every switch channel is read.
ReadSensorsUnguarded(config, cur, levels, sensor) ==
    [humidity |-> IF sensor.ok THEN RoundTenths(sensor.humidity)
                  ELSE SENSOR_UNDEFINED_VALUE,
     temperature |-> IF sensor.ok THEN RoundTenths(sensor.temperature)
                     ELSE SENSOR_UNDEFINED_VALUE,
     sw |-> [i \in Channels |-> levels[PinRead(i)]]]

\* "Read sensors": the values of CURRENT_* after the sample pass.
ReadSensors(config, cur, levels, sensor) ==
    [humidity |-> IF sensor.ok THEN RoundTenths(sensor.humidity)
                  ELSE SENSOR_UNDEFINED_VALUE,
     temperature |-> IF sensor.ok THEN RoundTenths(sensor.temperature)
                     ELSE SENSOR_UNDEFINED_VALUE,
     sw |-> [i \in Channels |->
                IF Enabled(config, i) THEN levels[PinRead(i)] ELSE cur.sw[i]]]

-----------------------------------------------------------------------------
(* Publish decision *)

\* HasChanged with a slip in one comparison: CURRENT_SW2 against PREVIOUS_SW1.
HasChangedSlip(cur, prev) ==
    \/ cur.humidity # prev.humidity
    \/ cur.temperature # prev.temperature
    \/ cur.sw[0] # prev.sw[0]
    \/ cur.sw[1] # prev.sw[1]
    \/ cur.sw[2] # prev.sw[1]
    \/ cur.sw[3] # prev.sw[3]

\* The six comparisons of CURRENT_* with PREVIOUS_*.
HasChanged(cur, prev) ==
    \/ cur.humidity # prev.humidity
    \/ cur.temperature # prev.temperature
    \/ cur.sw[0] # prev.sw[0]
    \/ cur.sw[1] # prev.sw[1]
    \/ cur.sw[2] # prev.sw[2]
    \/ cur.sw[3] # prev.sw[3]

\* ShouldPublish without the test of the hard deadline.
ShouldPublishOnChange(cur, prev, n, hard) == HasChanged(cur, prev)

\* "Check if we should actually publish this data"
ShouldPublish(cur, prev, n, hard) == HasChanged(cur, prev) \/ n > hard

\* TimeHasCome measured against the deadline of the pass before.
TimeHasComeEarly(n, soft) == n > soft - MQTT_PUBLISH_SOFT_INTERVAL

\* "Check if our time has come"
TimeHasCome(n, soft) == n > soft

-----------------------------------------------------------------------------
(* The JSON document and its serialization *)

RECURSIVE IndexOfKey(_, _, _)
IndexOfKey(doc, key, k) ==
    IF k > Len(doc) THEN 0
    ELSE IF doc[k].key = key THEN k
    ELSE IndexOfKey(doc, key, k + 1)

\* jsonBuffer[key] = value: replaces the member with that key, or appends one.
JsonSet(doc, key, value) ==
    LET k == IndexOfKey(doc, key, 1)
    IN  IF k = 0 THEN Append(doc, [key |-> key, value |-> value])
        ELSE [doc EXCEPT ![k].value = value]

RECURSIVE SetSwitches(_, _, _, _)
SetSwitches(doc, config, cur, i) ==
    IF i > 3 THEN doc
    ELSE SetSwitches(IF Enabled(config, i) THEN JsonSet(doc, config[i], cur.sw[i]) ELSE doc,
                     config, cur, i + 1)

\* The assignments to jsonBuffer before serializeJson.
FillJson(doc, config, cur) ==
    SetSwitches(JsonSet(JsonSet(doc, "humidity", cur.humidity),
                        "temperature", cur.temperature),
                config, cur, 0)

\* Characters of an integer in decimal.
RECURSIVE Digits(_)
Digits(v) ==
    IF v < 0 THEN 1 + Digits(-v)
    ELSE IF v < 10 THEN 1
    ELSE 1 + Digits(v \div 10)

\* Characters of one member: "key":value
MemberLen(m) == Len(m.key) + 3 + Digits(m.value)

\* Characters of the object up to and including its k-th member.
RECURSIVE PrefixLen(_, _)
PrefixLen(doc, k) ==
    IF k = 0 THEN 1
    ELSE PrefixLen(doc, k - 1) + (IF k > 1 THEN 1 ELSE 0) + MemberLen(doc[k])

\* Characters of the whole object, braces included.
SerializedLen(doc) == PrefixLen(doc, Len(doc)) + 1

\* serializeJson(jsonBuffer, mqttStatusMessage): the char[128] keeps at most
\* 127 characters; the members written in full, and whether the text is whole.
SerializeJson(doc) ==
    LET room == STATUS_MESSAGE_SIZE - 1
        fit == { k \in 0..Len(doc) : PrefixLen(doc, k) <= room }
        last == CHOOSE k \in fit : \A j \in fit : j <= k
    IN  IF SerializedLen(doc) <= room
        THEN [members |-> doc, complete |-> TRUE]
        ELSE [members |-> SubSeq(doc, 1, last), complete |-> FALSE]

NoMessage == [members |-> <<>>, complete |-> FALSE]

-----------------------------------------------------------------------------
(* Observations *)

NoPublish == [time |-> -1, connected |-> FALSE, ok |-> FALSE, rebuilt |-> FALSE]

-----------------------------------------------------------------------------
(* Initial state: power-on, with or without a stored configuration *)

InitWith(configs) ==
    /\ pc = "boot"
    /\ clock = 0
    /\ now = 0
    /\ mqttPublishSoftDeadline = 0
    /\ mqttPublishHardDeadline = 0
    /\ CURRENT = Undefined
    /\ PREVIOUS = Undefined
    /\ mqttConfig = EmptyConfig
    /\ connected = FALSE
    /\ jsonBuffer = <<>>
    /\ mqttStatusMessage = NoMessage
    /\ input = NoInput
    /\ event = "none"
    /\ lastPub = NoPublish
    /\ tick = "none"
    /\ backoffs = 0
    /\ eeprom \in {NoConfig} \cup {Saved(c) : c \in configs}
    /\ wifiSaved \in BOOLEAN

loopVars == <<now, mqttPublishSoftDeadline, mqttPublishHardDeadline, CURRENT,
              PREVIOUS, connected, jsonBuffer, mqttStatusMessage, input,
              lastPub, tick, backoffs>>

-----------------------------------------------------------------------------
(* setup() *)

\* setup() after autoConnect returned true: AM2322.begin(), and on failure
\* the endless while (1).
StartSensing(t, found) ==
    IF found
    THEN /\ pc' = "loop"
         /\ clock' = t + AM2322_STARTUP_DELAY
    ELSE /\ pc' = "hang"
         /\ clock' = t

\* setup() up to the return of autoConnect without the portal, or up to the
\* start of the portal.
Setup(reachable, found) ==
    /\ pc = "boot"
    /\ mqttConfig' = IF eeprom.valid THEN eeprom.config ELSE mqttConfig
    /\ wifiSaved' = (eeprom.valid /\ wifiSaved)
    /\ IF wifiSaved' /\ reachable
       THEN StartSensing(clock + DEBUG_SERIAL_START_DELAY, found)
       ELSE /\ pc' = "portal"
            /\ clock' = clock + DEBUG_SERIAL_START_DELAY
    /\ event' = "none"
    /\ UNCHANGED <<eeprom, loopVars>>

\* The user saves a configuration in the portal: saveConfigCallback sets
\* shouldSaveConfig, autoConnect returns (setBreakAfterConfig), the
\* configuration is copied and saved; without a WiFi connection, restart.
PortalSubmit(config, joined, found) ==
    /\ pc = "portal"
    /\ mqttConfig' = config
    /\ eeprom' = Saved(config)
    /\ wifiSaved' = joined
    /\ IF joined
       THEN StartSensing(clock, found)
       ELSE /\ pc' = "failed"
            /\ clock' = clock
    /\ event' = "none"
    /\ UNCHANGED loopVars

\* PortalTimeout without the test of res: setup() goes on to the sensors.
PortalTimeoutIgnored ==
    /\ pc = "portal"
    /\ pc' = "loop"
    /\ clock' = clock + WIFI_ACCESS_POINT_PORTAL_TIMEOUT * 1000 + AM2322_STARTUP_DELAY
    /\ event' = "none"
    /\ UNCHANGED <<mqttConfig, eeprom, wifiSaved, loopVars>>

\* The portal times out: autoConnect returns false.
PortalTimeout ==
    /\ pc = "portal"
    /\ pc' = "failed"
    /\ clock' = clock + WIFI_ACCESS_POINT_PORTAL_TIMEOUT * 1000
    /\ event' = "none"
    /\ UNCHANGED <<mqttConfig, eeprom, wifiSaved, loopVars>>

\* ESP.restart(): RAM is initialised again, EEPROM and WiFi settings stay.
Restart ==
    /\ pc = "failed"
    /\ pc' = "boot"
    /\ clock' = 0
    /\ now' = 0
    /\ mqttPublishSoftDeadline' = 0
    /\ mqttPublishHardDeadline' = 0
    /\ CURRENT' = Undefined
    /\ PREVIOUS' = Undefined
    /\ mqttConfig' = EmptyConfig
    /\ connected' = FALSE
    /\ jsonBuffer' = <<>>
    /\ mqttStatusMessage' = NoMessage
    /\ input' = NoInput
    /\ event' = "none"
    /\ lastPub' = NoPublish
    /\ tick' = "none"
    /\ backoffs' = 0
    /\ UNCHANGED <<eeprom, wifiSaved>>

\* while (1); after "AM2322 sensor not found"
Hang ==
    /\ pc = "hang"
    /\ UNCHANGED vars

-----------------------------------------------------------------------------
(* loop() *)

\* mqttClient.publish on a session in state session: transmitted or not.
PublishResults(session) == IF session THEN BOOLEAN ELSE {FALSE}

\* loop() from mqttClient.loop() to its end, entered with now = n on a
\* connected session; pub is the record of the last publish so far.
\*   levels, sensor: what the inputs and the AM2322 deliver
\*   drop:  the session is lost while mqttClient.loop() runs (chosen where
\*          it makes a difference, on an iteration that publishes; a loss on
\*          another iteration shows as lost at the next call of loop())
\*   sent:  whether mqttClient.publish transmits the message
Iteration(n, pub, world) ==
    /\ tick' = IF tick = "none" THEN "first" ELSE "later"
    /\ IF TimeHasCome(n, mqttPublishSoftDeadline)
       THEN \E levels \in world.levels, sensor \in world.reads :
            LET cur == ReadSensors(mqttConfig, CURRENT, levels, sensor)
                doc == FillJson(jsonBuffer, mqttConfig, cur)
            IN  /\ CURRENT' = cur
                /\ input' = [levels |-> levels, sensor |-> sensor]
                /\ mqttPublishSoftDeadline' = ToLong(n + MQTT_PUBLISH_SOFT_INTERVAL)
                /\ IF ShouldPublish(cur, PREVIOUS, n, mqttPublishHardDeadline)
                   THEN \E drop \in BOOLEAN : \E sent \in PublishResults(~drop) :
                        /\ connected' = ~drop
                        /\ jsonBuffer' = doc
                        /\ mqttStatusMessage' = SerializeJson(doc)
                        /\ lastPub' = [time |-> clock', connected |-> ~drop,
                                       ok |-> sent, rebuilt |-> FALSE]
                        /\ PREVIOUS' = cur
                        /\ mqttPublishHardDeadline' = ToLong(n + MQTT_PUBLISH_HARD_INTERVAL)
                        /\ event' = "publish"
                   ELSE /\ connected' = TRUE
                        /\ event' = "sample"
                        /\ lastPub' = pub
                        /\ UNCHANGED <<jsonBuffer, mqttStatusMessage, PREVIOUS,
                                       mqttPublishHardDeadline>>
       ELSE /\ connected' = TRUE
            /\ event' = "skip"
            /\ lastPub' = pub
            /\ UNCHANGED <<CURRENT, input, jsonBuffer, mqttStatusMessage, PREVIOUS,
                           mqttPublishHardDeadline, mqttPublishSoftDeadline>>

\* loop() is called d milliseconds after it last returned (or after setup()).
\* lost: the session was lost in the meantime.  With a session the whole of
\* loop() runs; without one, loop() enters connect_to_mqtt.
Loop(d, lost, world) ==
    /\ pc = "loop"
    /\ clock + d <= world.horizon
    /\ clock' = clock + d
    /\ now' = ToLong(Millis(clock'))
    /\ backoffs' = 0
    /\ IF connected /\ ~lost
       THEN /\ pc' = "loop"
            /\ Iteration(now', lastPub, world)
       ELSE /\ pc' = "connect"
            /\ connected' = FALSE
            /\ event' = "reconnect"
            /\ UNCHANGED <<mqttPublishSoftDeadline, mqttPublishHardDeadline, CURRENT,
                           PREVIOUS, jsonBuffer, mqttStatusMessage, input, lastPub, tick>>
    /\ UNCHANGED <<mqttConfig, eeprom, wifiSaved>>

\* The session can only be lost where there is one.
Losses == IF connected THEN BOOLEAN ELSE {TRUE}

\* ConnectSuccess with delay(5000) after the if instead of in its else branch.
ConnectSuccessDelayed(world) ==
    /\ pc = "connect"
    /\ pc' = "loop"
    /\ clock' = clock + MQTT_RETRY_DELAY
    /\ Iteration(now, [lastPub EXCEPT !.rebuilt = TRUE], world)
    /\ UNCHANGED <<now, backoffs, mqttConfig, eeprom, wifiSaved>>

\* connect_to_mqtt: mqttClient.connect succeeds, the while loop ends and
\* loop() goes on with the value of now it read before.
ConnectSuccess(world) ==
    /\ pc = "connect"
    /\ pc' = "loop"
    /\ clock' = clock
    /\ Iteration(now, [lastPub EXCEPT !.rebuilt = TRUE], world)
    /\ UNCHANGED <<now, backoffs, mqttConfig, eeprom, wifiSaved>>

\* connect_to_mqtt: mqttClient.connect fails, delay(5000), try again.
ConnectFailure(world) ==
    /\ pc = "connect"
    /\ clock + MQTT_RETRY_DELAY <= world.horizon
    /\ backoffs < MaxBackoffs
    /\ clock' = clock + MQTT_RETRY_DELAY
    /\ backoffs' = backoffs + 1
    /\ event' = "backoff"
    /\ UNCHANGED <<pc, now, mqttPublishSoftDeadline, mqttPublishHardDeadline, CURRENT,
                   PREVIOUS, connected, jsonBuffer, mqttStatusMessage, input, lastPub,
                   tick, mqttConfig, eeprom, wifiSaved>>

-----------------------------------------------------------------------------
(* Specifications *)

\* What a run is followed through: the configurations entered, the inputs
\* delivered, and the time up to which loop() is called.
World ==
    [configs |-> Configs, levels |-> PinLevels, reads |-> SensorReads,
     horizon |-> MaxTime]

\* One configuration and one level of the inputs, past the hard deadline.
HeartbeatWorld ==
    [configs |-> {EmptyConfig}, levels |-> {[p \in Pins |-> 0]},
     reads |-> SensorReads, horizon |-> MaxTimeHeartbeat]

Init == InitWith(World.configs)

Next ==
    \/ \E reachable, found \in BOOLEAN : Setup(reachable, found)
    \/ \E config \in World.configs, joined, found \in BOOLEAN :
          PortalSubmit(config, joined, found)
    \/ PortalTimeout
    \/ Restart
    \/ Hang
    \/ \E d \in Steps, lost \in Losses : Loop(d, lost, World)
    \/ ConnectSuccess(World)
    \/ ConnectFailure(World)

Spec == Init /\ [][Next]_vars

InitHeartbeat == InitWith(HeartbeatWorld.configs)

NextHeartbeat ==
    \/ \E reachable, found \in BOOLEAN : Setup(reachable, found)
    \/ \E config \in HeartbeatWorld.configs, joined, found \in BOOLEAN :
          PortalSubmit(config, joined, found)
    \/ PortalTimeout
    \/ Restart
    \/ Hang
    \/ \E d \in Steps, lost \in Losses : Loop(d, lost, HeartbeatWorld)
    \/ ConnectSuccess(HeartbeatWorld)
    \/ ConnectFailure(HeartbeatWorld)

SpecHeartbeat == InitHeartbeat /\ [][NextHeartbeat]_vars

\* The change test on its own: every pair of sample sets with a value of
\* the range or 999 on each channel is put in CURRENT_* and PREVIOUS_*.
HumidityValues == {45, SENSOR_UNDEFINED_VALUE}
TemperatureValues == {-5, SENSOR_UNDEFINED_VALUE}
SwitchValues == {0, 1, SENSOR_UNDEFINED_VALUE}

SampleSets ==
    [humidity : HumidityValues, temperature : TemperatureValues,
     sw : [Channels -> SwitchValues]]

InitChange ==
    /\ pc = "loop"
    /\ clock = 0
    /\ now = 0
    /\ mqttPublishSoftDeadline = 0
    /\ mqttPublishHardDeadline = 0
    /\ CURRENT \in SampleSets
    /\ PREVIOUS \in SampleSets
    /\ mqttConfig = EmptyConfig
    /\ connected = TRUE
    /\ jsonBuffer = <<>>
    /\ mqttStatusMessage = NoMessage
    /\ input = NoInput
    /\ event = "none"
    /\ lastPub = NoPublish
    /\ tick = "none"
    /\ backoffs = 0
    /\ eeprom = Saved(EmptyConfig)
    /\ wifiSaved = TRUE

changeFrame == <<pc, clock, now, mqttPublishSoftDeadline, mqttPublishHardDeadline,
                 mqttConfig, eeprom, wifiSaved, connected, jsonBuffer,
                 mqttStatusMessage, input, lastPub, tick, backoffs>>

\* The six comparisons of loop() are evaluated on CURRENT_* and PREVIOUS_*.
Compare ==
    /\ event = "none"
    /\ event' = IF HasChanged(CURRENT, PREVIOUS) THEN "changed" ELSE "unchanged"
    /\ UNCHANGED <<CURRENT, PREVIOUS, changeFrame>>

\* The two sample sets change places.
Swap ==
    /\ event # "none"
    /\ CURRENT' = PREVIOUS
    /\ PREVIOUS' = CURRENT
    /\ event' = "none"
    /\ UNCHANGED changeFrame

NextChange == Compare \/ Swap

SpecChange == InitChange /\ [][NextChange]_vars

\* The clock passes the largest long.  loop() keeps now and the deadlines in
\* long and adds the intervals in long; the additions that exceed the largest
\* long wrap around in two's complement (ToLong), as the add instruction of
\* the ESP8266 does.
LongMax == 2 ^ (LongBits - 1)

\* The state in which loop() returns after a sample pass at millis() = t that
\* read sensor and published the sample set with success on a session that
\* needed no reconnect, no switch channel being configured.
RunningAt(t, levels, sensor) ==
    LET cur == ReadSensors(EmptyConfig, Undefined, levels, sensor)
        doc == FillJson(<<>>, EmptyConfig, cur)
    IN  /\ pc = "loop"
        /\ clock = t
        /\ now = ToLong(Millis(t))
        /\ mqttPublishSoftDeadline = ToLong(ToLong(Millis(t)) + MQTT_PUBLISH_SOFT_INTERVAL)
        /\ mqttPublishHardDeadline = ToLong(ToLong(Millis(t)) + MQTT_PUBLISH_HARD_INTERVAL)
        /\ CURRENT = cur
        /\ PREVIOUS = cur
        /\ mqttConfig = EmptyConfig
        /\ connected = TRUE
        /\ jsonBuffer = doc
        /\ mqttStatusMessage = SerializeJson(doc)
        /\ input = [levels |-> levels, sensor |-> sensor]
        /\ event = "publish"
        /\ lastPub = [time |-> t, connected |-> TRUE, ok |-> TRUE, rebuilt |-> FALSE]
        /\ tick = "later"
        /\ backoffs = 0
        /\ eeprom = Saved(EmptyConfig)
        /\ wifiSaved = TRUE

OverflowWorld ==
    [configs |-> {EmptyConfig}, levels |-> {[p \in Pins |-> 0]},
     reads |-> SensorReads, horizon |-> LongMax + OverflowTail]

InitOverflow ==
    \E levels \in OverflowWorld.levels, sensor \in OverflowWorld.reads :
        RunningAt(LongMax - OverflowLead, levels, sensor)

NextOverflow ==
    \/ \E d \in Steps, lost \in Losses : Loop(d, lost, OverflowWorld)
    \/ ConnectSuccess(OverflowWorld)
    \/ ConnectFailure(OverflowWorld)

SpecOverflow == InitOverflow /\ [][NextOverflow]_vars

-----------------------------------------------------------------------------
(* Properties *)

\* The step publishes: mqttClient.publish is called in it.
Publishes == event' = "publish"

\* The step runs a sample pass (the body of "if (now > mqttPublishSoftDeadline)").
Samples == event' \in {"sample", "publish"}

\* A publish has been made since boot.
HasPublished == lastPub.time >= 0

\* The last sample pass was one that published: both deadlines stem from
\* the same value of now.
LastPassPublished ==
    /\ HasPublished
    /\ mqttPublishSoftDeadline - MQTT_PUBLISH_SOFT_INTERVAL
         = mqttPublishHardDeadline - MQTT_PUBLISH_HARD_INTERVAL

\* The members of the message handed to the broker, as a set of pairs.
MessagePairs ==
    { <<mqttStatusMessage.members[k].key, mqttStatusMessage.members[k].value>> :
        k \in 1..Len(mqttStatusMessage.members) }

MessageKeys == { p[1] : p \in MessagePairs }

EnabledChannels == { i \in Channels : Enabled(mqttConfig, i) }

\* C1: any two consecutive publishes are handed to the broker at least
\* MQTT_PUBLISH_SOFT_INTERVAL milliseconds apart (already when both of them
\* are transmitted).
C1_MinimumInterval ==
    [][(Publishes /\ HasPublished /\ lastPub.ok /\ lastPub'.ok)
         => lastPub'.time - lastPub.time >= MQTT_PUBLISH_SOFT_INTERVAL]_vars

\* C2: while the session stays connected (the last publish was transmitted
\* on a connected session and connect_to_mqtt has not run since) and the
\* sampled values are those last published, the next publish comes no later
\* than MQTT_PUBLISH_HARD_INTERVAL milliseconds after the last one.
C2_Heartbeat ==
    [][(/\ Publishes
        /\ pc = "loop"
        /\ HasPublished
        /\ lastPub.connected
        /\ lastPub.ok
        /\ ~lastPub.rebuilt
        /\ ~HasChanged(CURRENT', PREVIOUS))
         => lastPub'.time - lastPub.time <= MQTT_PUBLISH_HARD_INTERVAL]_vars

\* C3: once the first execution of loop() after boot has returned, a publish
\* has been made, whatever the first sample set was.
C3_FirstTickPublishes == tick = "first" => HasPublished

\* C3 witness: the first execution of loop() published a sample set in which
\* every channel is undefined (999), the value of the initial snapshot.
C3_Witness ==
    /\ tick = "first"
    /\ event = "publish"
    /\ CURRENT = Undefined
    /\ ~input.sensor.ok

\* C4: mqttClient.publish is only called on a connected session.
C4_PublishOnConnectedSession == event = "publish" => lastPub.connected

\* C5: a switch channel with an empty property name is never sampled (its
\* current and published values stay 999, so it never differs from the
\* snapshot) and is no key of the document or of a published message: every
\* key is "humidity", "temperature" or the name of an enabled channel.
C5_DisabledChannelUntouched ==
    /\ \A i \in Channels \ EnabledChannels :
          /\ CURRENT.sw[i] = SENSOR_UNDEFINED_VALUE
          /\ PREVIOUS.sw[i] = SENSOR_UNDEFINED_VALUE
    /\ MessageKeys \subseteq
          {"humidity", "temperature"} \cup { mqttConfig[i] : i \in EnabledChannels }
    /\ \A k \in 1..Len(jsonBuffer) :
          jsonBuffer[k].key \in
             {"humidity", "temperature"} \cup { mqttConfig[i] : i \in EnabledChannels }
    /\ Len(jsonBuffer) <= 2 + Cardinality(EnabledChannels)

\* C5 witness: a message was published while one channel is enabled and
\* another is disabled with its input at level 1.
C5_Witness ==
    /\ event = "publish"
    /\ \E i \in Channels \ EnabledChannels : input.levels[PinRead(i)] = 1
    /\ EnabledChannels # {}

\* C6: on a sample pass on which the AM2322 read fails, temperature and
\* humidity are 999 and a message published on that pass carries 999 under
\* both keys; every enabled switch channel holds a level read on that pass;
\* and the pass publishes whenever a publish is due.
C6_SensorFailure ==
    (event \in {"sample", "publish"} /\ ~input.sensor.ok) =>
        /\ CURRENT.humidity = SENSOR_UNDEFINED_VALUE
        /\ CURRENT.temperature = SENSOR_UNDEFINED_VALUE
        /\ \A i \in EnabledChannels : CURRENT.sw[i] \in {0, 1}
        /\ event = "sample" =>
              ~ShouldPublish(CURRENT, PREVIOUS, now, mqttPublishHardDeadline)
        /\ event = "publish" =>
              /\ <<"humidity", SENSOR_UNDEFINED_VALUE>> \in MessagePairs
              /\ <<"temperature", SENSOR_UNDEFINED_VALUE>> \in MessagePairs

\* C7: the device is never in a state in which it will not sample or publish
\* again, whatever the sensor does; here, the endless loop of setup().
C7_SensorFailureNotFatal == pc # "hang"

\* C8: a published message is the whole flat object with exactly the keys
\* "humidity", "temperature" and the names of the enabled switch channels,
\* each with the value held for its channel.
C8_MessageShape ==
    event = "publish" =>
        /\ mqttStatusMessage.complete
        /\ MessagePairs =
              {<<"humidity", CURRENT.humidity>>, <<"temperature", CURRENT.temperature>>}
                \cup { <<mqttConfig[i], CURRENT.sw[i]>> : i \in EnabledChannels }
        /\ Len(mqttStatusMessage.members) = 2 + Cardinality(EnabledChannels)

\* C9: after a publish that failed, no publish is made before
\* connect_to_mqtt has built the session again.
C9_FailureRebuildsSession ==
    [][(Publishes /\ HasPublished /\ ~lastPub.ok)
         => (lastPub.rebuilt \/ pc = "connect")]_vars

\* C10: the sample pass that follows a failed publish publishes again.
C10_RetryOnNextPass ==
    [][(Samples /\ LastPassPublished /\ ~lastPub.ok) => Publishes]_vars

\* The step is the end of an execution of loop(): the part from
\* mqttClient.loop() on has run.
Ticks == event' \in {"skip", "sample", "publish"}

\* C11: in connect_to_mqtt every failed mqttClient.connect is followed by one
\* delay(5000) and a further attempt, the successful one by none: with k
\* failures the function has taken k * 5000 ms when it returns.  It is left
\* only to go on with loop() (never to restart, give up or open the portal),
\* and loop() then runs its sample and publish part.
C11_RetryThenResume ==
    [][pc = "connect" =>
         /\ \/ /\ pc' = "connect"
               /\ backoffs' = backoffs + 1
               /\ clock' = clock + MQTT_RETRY_DELAY
               /\ event' = "backoff"
            \/ /\ pc' = "loop"
               /\ backoffs' = backoffs
               /\ clock' = clock
               /\ Ticks
         /\ clock' = now' + backoffs' * MQTT_RETRY_DELAY]_vars

\* C11 witness: connect failed three times, then succeeded, and loop() went
\* on to publish, 15 s after it had read now.
C11_Witness ==
    /\ pc = "loop"
    /\ backoffs = 3
    /\ event = "publish"
    /\ clock = now + 3 * MQTT_RETRY_DELAY

\* No execution of loop() has started in this boot cycle.
NoTickYet ==
    /\ tick = "none"
    /\ ~connected
    /\ lastPub = NoPublish
    /\ CURRENT = Undefined
    /\ mqttPublishSoftDeadline = 0

\* C12: when the portal has waited WIFI_ACCESS_POINT_PORTAL_TIMEOUT seconds
\* without a submission, setup() ends in ESP.restart(): no session was made
\* and loop() never ran in that boot cycle, and the next step is the start of
\* a new boot.
C12_PortalTimeoutRestarts ==
    /\ [](pc \in {"portal", "failed"} => NoTickYet)
    /\ [][(pc = "portal" /\ clock' >= clock + WIFI_ACCESS_POINT_PORTAL_TIMEOUT * 1000)
            => (pc' = "failed" /\ NoTickYet')]_vars
    /\ [][pc = "failed" => (pc' = "boot" /\ clock' = 0 /\ NoTickYet')]_vars

\* C12 witness: the portal has timed out and the restart is pending.
C12_Witness ==
    /\ pc = "failed"
    /\ clock >= WIFI_ACCESS_POINT_PORTAL_TIMEOUT * 1000
    /\ NoTickYet

\* At least one of the six channels has different values in a and b.
Differ(a, b) ==
    \/ a.humidity # b.humidity
    \/ a.temperature # b.temperature
    \/ \E i \in Channels : a.sw[i] # b.sw[i]

\* C13: the change test gives the same answer with its two sample sets
\* exchanged, answers "unchanged" for a sample set compared with itself, and
\* answers "changed" exactly when at least one channel differs (999 against
\* 999 is no difference, 999 against a value is one).
C13_ChangeTest ==
    /\ HasChanged(CURRENT, PREVIOUS) = HasChanged(PREVIOUS, CURRENT)
    /\ ~HasChanged(CURRENT, CURRENT)
    /\ ~HasChanged(PREVIOUS, PREVIOUS)
    /\ event # "none" => ((event = "changed") <=> Differ(CURRENT, PREVIOUS))

\* C13 witness: the test answered "changed" for two sample sets that differ
\* in nothing but humidity, 999 on one side and a value on the other.
C13_Witness ==
    /\ event = "changed"
    /\ CURRENT.humidity = SENSOR_UNDEFINED_VALUE
    /\ PREVIOUS.humidity = 45
    /\ CURRENT.temperature = PREVIOUS.temperature
    /\ CURRENT.sw = PREVIOUS.sw
    /\ CURRENT.sw[1] = 1
    /\ CURRENT.sw[2] = SENSOR_UNDEFINED_VALUE

\* C14: PREVIOUS_* and the hard deadline change only in a step that
\* publishes with success: a publish that fails leaves both as they were, so
\* the snapshot is always the sample set last transmitted.
C14_SnapshotOnSuccessOnly ==
    [][(PREVIOUS' # PREVIOUS \/ mqttPublishHardDeadline' # mqttPublishHardDeadline)
         => (Publishes /\ lastPub'.ok)]_vars

\* C15: a sample pass publishes exactly if the sample set differs from the
\* snapshot or now has reached the hard deadline (now >= deadline).
C15_PublishDecision ==
    [][Samples =>
         (Publishes <=> (\/ HasChanged(CURRENT', PREVIOUS)
                         \/ now' >= mqttPublishHardDeadline))]_vars

\* C16: an execution of loop() with now at or past the soft deadline
\* (now >= deadline) samples the sensors and sets the soft deadline to
\* now + MQTT_PUBLISH_SOFT_INTERVAL, whether it publishes or not.
C16_SamplePass ==
    [][(Ticks /\ now' >= mqttPublishSoftDeadline)
         => (/\ Samples
             /\ mqttPublishSoftDeadline' = now' + MQTT_PUBLISH_SOFT_INTERVAL)]_vars

\* C17: an execution of loop() that reads now before the soft deadline
\* (now < deadline) reads no sensor, publishes nothing and leaves CURRENT_*,
\* PREVIOUS_*, the document, the message and both deadlines as they were.
C17_EarlyTickNoOp ==
    [][(pc \in {"loop", "connect"} /\ now' < mqttPublishSoftDeadline)
         => (/\ ~Samples
             /\ lastPub'.time = lastPub.time
             /\ UNCHANGED <<CURRENT, PREVIOUS, input, jsonBuffer, mqttStatusMessage,
                            mqttPublishSoftDeadline, mqttPublishHardDeadline>>)]_vars

\* C17 witness: loop() has run to its end before the soft deadline, after a
\* sample set that differs from the initial one was published.
C17_Witness ==
    /\ event = "skip"
    /\ now < mqttPublishSoftDeadline
    /\ HasPublished
    /\ input.sensor.ok

\* C18: after a publish the hard deadline is MQTT_PUBLISH_HARD_INTERVAL
\* after the time at which mqttClient.publish was called.
C18_HardDeadlineFromPublish ==
    event = "publish" =>
        mqttPublishHardDeadline - lastPub.time = MQTT_PUBLISH_HARD_INTERVAL

\* The input wired to switch channel i.
OwnPin(i) ==
    CASE i = 0 -> GPIO_SW0
      [] i = 1 -> GPIO_SW1
      [] i = 2 -> GPIO_SW2
      [] i = 3 -> GPIO_SW3

\* C19: after a sample pass every enabled switch channel holds the level of
\* its own input, whatever the levels of the other inputs, and a message
\* published on that pass carries that level under the channel's name.
C19_OwnInput ==
    event \in {"sample", "publish"} =>
        \A i \in EnabledChannels :
            /\ CURRENT.sw[i] = input.levels[OwnPin(i)]
            /\ (event = "publish" /\ mqttStatusMessage.complete) =>
                   <<mqttConfig[i], input.levels[OwnPin(i)]>> \in MessagePairs

\* Milliseconds from the reading of now that set a deadline (the deadline
\* less its interval) to the reading n, counted on the clock of millis().
Elapsed(n, deadline, interval) ==
    (n - ToLong(deadline - interval)) % (2 ^ LongBits)

\* C20: also while the clock passes the largest long, a sample pass comes no
\* sooner than MQTT_PUBLISH_SOFT_INTERVAL after the pass before, and a publish
\* of unchanged values no sooner than MQTT_PUBLISH_HARD_INTERVAL after the
\* publish before (both measured between the readings of now).
C20_ThrottleSurvivesOverflow ==
    [][/\ Samples =>
            Elapsed(now', mqttPublishSoftDeadline, MQTT_PUBLISH_SOFT_INTERVAL)
               >= MQTT_PUBLISH_SOFT_INTERVAL
       /\ (Publishes /\ ~HasChanged(CURRENT', PREVIOUS)) =>
            Elapsed(now', mqttPublishHardDeadline, MQTT_PUBLISH_HARD_INTERVAL)
               >= MQTT_PUBLISH_HARD_INTERVAL]_vars

====
